---------------------------- MODULE Spec2Model ----------------------------
(***************************************************************************)
(* Model of the dbserver lifecycle manager (src/main.go): the HTTP        *)
(* handlers createDB, deleteDB and getMetadata, run by net/http in one     *)
(* goroutine per request, over the unsynchronised global slice             *)
(* metaDataList and a MySQL engine.                                        *)
(*                                                                         *)
(* A handler is split into one action per access to shared state (the     *)
(* slice header, its backing array, the engine); statements that touch     *)
(* only locals are part of the action that precedes the next shared        *)
(* access.  The slice is modelled as Go implements it: a header            *)
(* (array, len, cap) and a backing array that append writes in place       *)
(* while len < cap and reallocates otherwise.                              *)
(***************************************************************************)
EXTENDS Integers, Sequences, FiniteSets, TLC

(***************************************************************************)
(* Bounds of the model.                                                    *)
(***************************************************************************)
NumProcs == 2          \* goroutines serving requests at the same time
MaxCalls == 5          \* requests accepted in one run
MaxUUID == 3           \* UUID_SHORT() values the engine hands out in one run
FirstUUID == 9         \* the first of them
MaxOverlap == 1        \* requests that arrive while another handler runs, in one run

Procs == 1..NumProcs
ArrIds == 1..(NumProcs + 1)   \* live backing arrays: the global one, one per goroutine

(***************************************************************************)
(* Strings that the code compares or converts are sequences of code       *)
(* points; strings it only stores are TLA+ strings.                        *)
(***************************************************************************)
dbName1 == <<100, 98, 49>>      \* "db1"
DBNAME1 == <<68, 66, 49>>       \* "DB1"
dbName2 == <<100, 98, 50>>      \* "db2"
dbName3 == <<100, 98, 51>>      \* "db3"
Names == {dbName1, DBNAME1, dbName2, dbName3}

\* type payload (decoded request body of /createDB)
Payloads ==
  { [Name |-> dbName1, Engine |-> "mysql", Size |-> "20MB", Replicas |-> 2],
    [Name |-> DBNAME1, Engine |-> "mysql", Size |-> "10MB", Replicas |-> 1],
    [Name |-> dbName2, Engine |-> "mysql", Size |-> "30MB", Replicas |-> 3],
    [Name |-> dbName3, Engine |-> "mysql", Size |-> "30MB", Replicas |-> 3],
    [Name |-> dbName2, Engine |-> "postgres", Size |-> "30MB", Replicas |-> 3] }

NoPayload == [Name |-> <<>>, Engine |-> "", Size |-> "", Replicas |-> 0]

\* type metaData; its zero value fills freshly allocated array slots
ZeroMeta == [Name |-> <<>>, Engine |-> "", Size |-> "", Replicas |-> 0, uuid |-> <<>>]

\* the drivers registered with database/sql (the blank import of go-sql-driver/mysql)
Drivers == {"mysql"}

\* sql.Open fails for a driver name that is not registered
sqlOpen(engine) == engine \in Drivers

\* line 152: io.WriteString(w, "UUID of DB created: ")
UUIDPrefix == "UUID of DB created: "

NoRequest == [op |-> "none", malformed |-> FALSE, body |-> NoPayload, dbName |-> << >>]

\* the requests a client can send
Requests ==
  {[op |-> "create", malformed |-> FALSE, body |-> b, dbName |-> << >>] : b \in Payloads}
  \cup {[op |-> "create", malformed |-> TRUE, body |-> NoPayload, dbName |-> << >>]}
  \cup {[op |-> "delete", malformed |-> FALSE, body |-> NoPayload, dbName |-> n] : n \in Names}
  \cup {[op |-> "get", malformed |-> FALSE, body |-> NoPayload, dbName |-> << >>]}

VARIABLES
  heap,          \* backing arrays: array id -> sequence of cap slots
  metaDataList,  \* the global slice header [arr, len, cap]
  engineDBs,     \* databases that exist in the engine
  nextUUID,      \* next value of UUID_SHORT()
  calls,         \* requests accepted so far
  overlaps,      \* requests accepted while another handler was running
  pc,            \* per goroutine: position in its handler
  req,           \* per goroutine: the request [op, malformed, body, dbName]
  t,             \* per goroutine: createDB's decoded payload
  pos,           \* per goroutine: deleteDB's p
  hdr,           \* per goroutine: slice header held in registers by append
  uuid,          \* per goroutine: createDB's uuid
  handles,       \* per goroutine: *sql.DB pools opened by this call, not yet closed
  deadline,      \* per goroutine: the pending engine call carries a context deadline
  resp,          \* per goroutine: what the handler wrote to the ResponseWriter
  eng,           \* per goroutine: the database/sql calls of this call, in order,
                 \* each with the database its DSN selects and its result
  reg0,          \* per goroutine: the Registry when its request arrived
  db0,           \* per goroutine: the database a /createDB request names, if the
                 \* engine held it when the request arrived
  outcome,       \* per goroutine: the return statement the handler left through
  logged         \* per goroutine: the list getMetadata printed

vars == << heap, metaDataList, engineDBs, nextUUID, calls, overlaps, pc, req, t, pos, hdr,
           uuid, handles, deadline, resp, eng, reg0, db0, outcome, logged >>

(***************************************************************************)
(* Slices.                                                                 *)
(***************************************************************************)
\* var metaDataList = []metaData{} : empty, capacity 0, no backing array
EmptySlice == [arr |-> 0, len |-> 0, cap |-> 0]

\* the elements a slice header denotes over a given heap
Elems(hp, h) == IF h.len = 0 THEN << >> ELSE SubSeq(hp[h.arr], 1, h.len)

\* the Registry as GetMetadata and findRecordsByDBName see it
Registry == Elems(heap, metaDataList)

Zeros(n) == [i \in 1..n |-> ZeroMeta]

\* capacity append grows to (runtime growslice: double, or the needed length)
NewCap(oldcap, needed) == IF needed > 2 * oldcap THEN needed ELSE 2 * oldcap

\* array ids held by the global header or by a goroutine's registers
Refs(mdl, hdrs) == ({mdl.arr} \cup {hdrs[q].arr : q \in Procs}) \ {0}

\* the garbage collector: unreferenced arrays are gone
Collect(hp, mdl, hdrs) ==
  [a \in ArrIds |-> IF a \in Refs(mdl, hdrs) THEN hp[a] ELSE << >>]

FreshArr(mdl, hdrs) ==
  CHOOSE a \in ArrIds \ Refs(mdl, hdrs) : \A b \in ArrIds \ Refs(mdl, hdrs) : a <= b

(***************************************************************************)
(* strings.EqualFold, on ASCII: equal, or an upper-case letter and its     *)
(* lower-case form.                                                        *)
(***************************************************************************)
FoldEqRune(sr, tr) ==
  LET lo == IF sr < tr THEN sr ELSE tr
      hi == IF sr < tr THEN tr ELSE sr
  IN  \/ sr = tr
      \/ (65 <= lo /\ lo <= 90 /\ hi = lo + 32)

EqualFold(s, u) ==
  /\ Len(s) = Len(u)
  /\ \A i \in 1..Len(s) : FoldEqRune(s[i], u[i])

\* variant: names compared with == instead of strings.EqualFold
findRecordsByDBName_caseSensitive(list, name) ==
  LET hits == {i \in 1..Len(list) : list[i].Name = name}
  IN  IF hits = {} THEN -1
      ELSE (CHOOSE i \in hits : \A j \in hits : i <= j) - 1

\* findRecordsByDBName over the list: first matching index (0-based), or -1
findRecordsByDBName(list, name) ==
  LET hits == {i \in 1..Len(list) : EqualFold(list[i].Name, name)}
  IN  IF hits = {} THEN -1
      ELSE (CHOOSE i \in hits : \A j \in hits : i <= j) - 1

(***************************************************************************)
(* fmt.Sprintf("%v", uuid): the decimal digits of a non-negative int.      *)
(***************************************************************************)
RECURSIVE Sprintf(_)
Sprintf(n) == IF n < 10 THEN << 48 + n >> ELSE Append(Sprintf(n \div 10), 48 + (n % 10))

Init ==
  /\ heap = [a \in ArrIds |-> << >>]
  /\ metaDataList = EmptySlice
  /\ engineDBs = {}
  /\ nextUUID = FirstUUID
  /\ calls = 0
  /\ overlaps = 0
  /\ pc = [p \in Procs |-> "idle"]
  /\ req = [p \in Procs |-> NoRequest]
  /\ t = [p \in Procs |-> NoPayload]
  /\ pos = [p \in Procs |-> -1]
  /\ hdr = [p \in Procs |-> EmptySlice]
  /\ uuid = [p \in Procs |-> 0]
  /\ handles = [p \in Procs |-> {}]
  /\ deadline = [p \in Procs |-> FALSE]
  /\ resp = [p \in Procs |-> << >>]
  /\ eng = [p \in Procs |-> << >>]
  /\ reg0 = [p \in Procs |-> << >>]
  /\ db0 = [p \in Procs |-> {}]
  /\ outcome = [p \in Procs |-> "none"]
  /\ logged = [p \in Procs |-> << >>]

\* no handler is running
Quiet == \A q \in Procs : pc[q] = "idle"

(***************************************************************************)
(* A request arrives and net/http hands it to a goroutine.  /createDB      *)
(* carries a body (a payload, or bytes json.Decoder rejects), /deleteDB    *)
(* the dbName query parameter.                                             *)
(***************************************************************************)
Request(p) ==
  /\ pc[p] = "idle"
  /\ calls < MaxCalls
  /\ calls' = calls + 1
  /\ IF Quiet
       THEN UNCHANGED overlaps
       ELSE overlaps < MaxOverlap /\ overlaps' = overlaps + 1
  /\ \E r \in Requests :
       /\ req' = [req EXCEPT ![p] = r]
       /\ pc' = [pc EXCEPT ![p] = CASE r.op = "create" -> "c_decode"
                                    [] r.op = "delete" -> "d_find"
                                    [] OTHER -> "g_log"]
       /\ db0' = [db0 EXCEPT ![p] = IF r.op = "create"
                                      THEN engineDBs \cap {r.body.Name}
                                      ELSE {}]
  /\ reg0' = [reg0 EXCEPT ![p] = Registry]
  /\ UNCHANGED << heap, metaDataList, engineDBs, nextUUID, t, pos, hdr, uuid,
                  handles, deadline, resp, eng, outcome, logged >>

\* the database name a request carries
ReqName(r) == IF r.op = "create" THEN r.body.Name ELSE r.dbName

\* The handler returns through the return statement named out, with the log of
\* its database/sql calls, leaving the pools in open unclosed (not closed by it
\* or by its deferred calls) and having printed the list lg.
Return(p, out, log, open, lg) ==
  /\ pc' = [pc EXCEPT ![p] = "returned"]
  /\ outcome' = [outcome EXCEPT ![p] = out]
  /\ eng' = [eng EXCEPT ![p] = log]
  /\ handles' = [handles EXCEPT ![p] = open]
  /\ logged' = [logged EXCEPT ![p] = lg]
  /\ deadline' = [deadline EXCEPT ![p] = FALSE]
  /\ UNCHANGED << req, t, pos, uuid, resp, reg0, db0 >>

\* net/http finishes the request after the handler returned: it sends what the
\* handler wrote and the goroutine is free for the next request
Respond(p) ==
  /\ pc[p] = "returned"
  /\ pc' = [pc EXCEPT ![p] = "idle"]
  /\ req' = [req EXCEPT ![p] = NoRequest]
  /\ t' = [t EXCEPT ![p] = NoPayload]
  /\ pos' = [pos EXCEPT ![p] = -1]
  /\ uuid' = [uuid EXCEPT ![p] = 0]
  /\ handles' = [handles EXCEPT ![p] = {}]
  /\ resp' = [resp EXCEPT ![p] = << >>]
  /\ eng' = [eng EXCEPT ![p] = << >>]
  /\ reg0' = [reg0 EXCEPT ![p] = << >>]
  /\ db0' = [db0 EXCEPT ![p] = {}]
  /\ outcome' = [outcome EXCEPT ![p] = "none"]
  /\ logged' = [logged EXCEPT ![p] = << >>]
  /\ UNCHANGED << heap, metaDataList, engineDBs, nextUUID, calls, overlaps, hdr, deadline >>

(***************************************************************************)
(* The log of database/sql calls of one handler call.                      *)
(***************************************************************************)
\* a call that completes at once (sql.Open), with its result
Logged(log, call, db, r) == Append(log, [call |-> call, db |-> db, res |-> r])

\* a call sent to the engine, not yet answered
Issued(log, call, db) == Logged(log, call, db, "pending")

\* the pending call ends with result r
Answered(log, r) == [log EXCEPT ![Len(log)].res = r]

(***************************************************************************)
(* createDB                                                                *)
(***************************************************************************)
\* variant: the duplicate check also rejects a name the engine already holds
createDB_Decode_engineCheck(p) ==
  /\ pc[p] = "c_decode"
  /\ IF req[p].malformed
       THEN Return(p, "Panic", eng[p], {}, << >>)
       ELSE IF \/ findRecordsByDBName(Registry, req[p].body.Name) # -1
               \/ req[p].body.Name \in engineDBs
              THEN Return(p, "DuplicateDatabase", eng[p], {}, << >>)
              ELSE /\ t' = [t EXCEPT ![p] = req[p].body]
                   /\ pc' = [pc EXCEPT ![p] = "c_open"]
                   /\ UNCHANGED << req, pos, uuid, handles, deadline, resp, eng, reg0, db0,
                                   outcome, logged >>
  /\ UNCHANGED << heap, metaDataList, engineDBs, nextUUID, calls, overlaps, hdr >>

\* lines 67-77: decode the body (panic on error), then the duplicate check
createDB_Decode(p) ==
  /\ pc[p] = "c_decode"
  /\ IF req[p].malformed
       THEN Return(p, "Panic", eng[p], {}, << >>)
       ELSE IF findRecordsByDBName(Registry, req[p].body.Name) # -1
              THEN Return(p, "DuplicateDatabase", eng[p], {}, << >>)
              ELSE /\ t' = [t EXCEPT ![p] = req[p].body]
                   /\ pc' = [pc EXCEPT ![p] = "c_open"]
                   /\ UNCHANGED << req, pos, uuid, handles, deadline, resp, eng, reg0, db0,
                                   outcome, logged >>
  /\ UNCHANGED << heap, metaDataList, engineDBs, nextUUID, calls, overlaps, hdr >>

\* lines 81-97: sql.Open(t.Engine, dsn("")), then ExecContext of CREATE DATABASE
\* under a 5 s context
createDB_Open(p) ==
  /\ pc[p] = "c_open"
  /\ IF ~sqlOpen(t[p].Engine)
       THEN Return(p, "ConnectFailure", Logged(eng[p], "Open", << >>, "err"), {}, << >>)
       ELSE /\ handles' = [handles EXCEPT ![p] = {"unscoped"}]
            /\ eng' = [eng EXCEPT ![p] =
                         Issued(Logged(eng[p], "Open", << >>, "ok"), "CREATE", << >>)]
            /\ pc' = [pc EXCEPT ![p] = "c_exec_wait"]
            /\ deadline' = [deadline EXCEPT ![p] = TRUE]
            /\ UNCHANGED << req, t, pos, uuid, resp, reg0, db0, outcome, logged >>
  /\ UNCHANGED << heap, metaDataList, engineDBs, nextUUID, calls, overlaps, hdr >>

\* variant: a CREATE DATABASE statement that failed is issued once more
createDB_ExecReply_retry(p) ==
  /\ pc[p] = "c_exec_wait"
  /\ \/ /\ engineDBs' = engineDBs \cup {t[p].Name}
        /\ eng' = [eng EXCEPT ![p] = Answered(eng[p], "ok")]
        /\ pc' = [pc EXCEPT ![p] = "c_reopen"]
        /\ deadline' = [deadline EXCEPT ![p] = FALSE]
        /\ UNCHANGED << req, t, pos, uuid, handles, resp, reg0, db0, outcome, logged >>
     \/ /\ Len(eng[p]) < 3
        /\ eng' = [eng EXCEPT ![p] = Issued(Answered(eng[p], "err"), "CREATE", << >>)]
        /\ UNCHANGED << pc, deadline, req, t, pos, uuid, handles, resp, reg0, db0, outcome, logged >>
        /\ UNCHANGED engineDBs
     \/ /\ Len(eng[p]) >= 3
        /\ Return(p, "ExecFailure", Answered(eng[p], "err"), handles[p], << >>)
        /\ UNCHANGED engineDBs
  /\ UNCHANGED << heap, metaDataList, nextUUID, calls, overlaps, hdr >>

\* lines 97-101: the engine answers the CREATE DATABASE statement; on an error
\* the handler returns (db is not closed on this path)
createDB_ExecReply(p) ==
  /\ pc[p] = "c_exec_wait"
  /\ \/ /\ engineDBs' = engineDBs \cup {t[p].Name}
        /\ eng' = [eng EXCEPT ![p] = Answered(eng[p], "ok")]
        /\ pc' = [pc EXCEPT ![p] = "c_reopen"]
        /\ deadline' = [deadline EXCEPT ![p] = FALSE]
        /\ UNCHANGED << req, t, pos, uuid, handles, resp, reg0, db0, outcome, logged >>
     \/ /\ Return(p, "ExecFailure", Answered(eng[p], "err"), handles[p], << >>)
        /\ UNCHANGED engineDBs
  /\ UNCHANGED << heap, metaDataList, nextUUID, calls, overlaps, hdr >>

\* lines 88, 97-101: the context expires before the engine answers; the engine
\* may or may not have carried the statement out
createDB_ExecDeadline(p) ==
  /\ pc[p] = "c_exec_wait"
  /\ deadline[p]
  /\ \/ engineDBs' = engineDBs \cup {t[p].Name}
     \/ UNCHANGED engineDBs
  /\ Return(p, "Timeout", Answered(eng[p], "timeout"), handles[p], << >>)
  /\ UNCHANGED << heap, metaDataList, nextUUID, calls, overlaps, hdr >>

\* variant: the second sql.Open is given dsn("") again
createDB_Reopen_unscoped(p) ==
  /\ pc[p] = "c_reopen"
  /\ handles' = [handles EXCEPT ![p] = (handles[p] \ {"unscoped"}) \cup {"scoped"}]
  /\ eng' = [eng EXCEPT ![p] =
               Issued(Logged(eng[p], "Open", << >>, "ok"), "Ping", << >>)]
  /\ pc' = [pc EXCEPT ![p] = "c_ping_wait"]
  /\ deadline' = [deadline EXCEPT ![p] = TRUE]
  /\ UNCHANGED << req, t, pos, uuid, resp, reg0, db0, outcome, logged >>
  /\ UNCHANGED << heap, metaDataList, engineDBs, nextUUID, calls, overlaps, hdr >>

\* lines 102-130: db.Close(), sql.Open(t.Engine, dsn(t.Name)) with its deferred
\* Close, the pool settings, then PingContext under a new 5 s context.
\* (res.RowsAffected() of the mysql driver returns no error: lines 103-106 are
\* not taken.)
createDB_Reopen(p) ==
  /\ pc[p] = "c_reopen"
  /\ IF ~sqlOpen(t[p].Engine)
       THEN Return(p, "ConnectFailure", Logged(eng[p], "Open", t[p].Name, "err"),
                   handles[p] \ {"unscoped"}, << >>)
       ELSE /\ handles' = [handles EXCEPT ![p] = (handles[p] \ {"unscoped"}) \cup {"scoped"}]
            /\ eng' = [eng EXCEPT ![p] =
                         Issued(Logged(eng[p], "Open", t[p].Name, "ok"), "Ping", t[p].Name)]
            /\ pc' = [pc EXCEPT ![p] = "c_ping_wait"]
            /\ deadline' = [deadline EXCEPT ![p] = TRUE]
            /\ UNCHANGED << req, t, pos, uuid, resp, reg0, db0, outcome, logged >>
  /\ UNCHANGED << heap, metaDataList, engineDBs, nextUUID, calls, overlaps, hdr >>

\* variant: the return after a failed ping is missing
createDB_PingReply_ignoreErr(p) ==
  /\ pc[p] = "c_ping_wait"
  /\ \E r \in {"ok", "err"} :
       /\ r = "ok" => t[p].Name \in engineDBs
       /\ eng' = [eng EXCEPT ![p] = Issued(Answered(eng[p], r), "UUID_SHORT", t[p].Name)]
  /\ pc' = [pc EXCEPT ![p] = "c_uuid_wait"]
  /\ deadline' = [deadline EXCEPT ![p] = FALSE]
  /\ UNCHANGED << req, t, pos, uuid, handles, resp, reg0, db0, outcome, logged >>
  /\ UNCHANGED << heap, metaDataList, engineDBs, nextUUID, calls, overlaps, hdr >>

\* lines 130-139: the engine answers the ping (the connection selects t.Name, so
\* it succeeds only while that database exists); then QueryRow, with no context
createDB_PingReply(p) ==
  /\ pc[p] = "c_ping_wait"
  /\ \/ /\ t[p].Name \in engineDBs
        /\ eng' = [eng EXCEPT ![p] = Issued(Answered(eng[p], "ok"), "UUID_SHORT", t[p].Name)]
        /\ pc' = [pc EXCEPT ![p] = "c_uuid_wait"]
        /\ deadline' = [deadline EXCEPT ![p] = FALSE]
        /\ UNCHANGED << req, t, pos, uuid, handles, resp, reg0, db0, outcome, logged >>
     \/ Return(p, "ConnectFailure", Answered(eng[p], "err"), handles[p] \ {"scoped"}, << >>)
  /\ UNCHANGED << heap, metaDataList, engineDBs, nextUUID, calls, overlaps, hdr >>

\* lines 128-134: the ping's context expires
createDB_PingDeadline(p) ==
  /\ pc[p] = "c_ping_wait"
  /\ deadline[p]
  /\ Return(p, "Timeout", Answered(eng[p], "timeout"), handles[p] \ {"scoped"}, << >>)
  /\ UNCHANGED << heap, metaDataList, engineDBs, nextUUID, calls, overlaps, hdr >>

\* line 153: json.NewEncoder(w).Encode(d.uuid) writes the string quoted, then \n
JSONString(str) == << 34 >> \o str \o << 34, 10 >>

\* variant: a failed identity fetch drops the database it has just created
createDB_UUIDReply_rollback(p) ==
  /\ pc[p] = "c_uuid_wait"
  /\ \/ /\ nextUUID < FirstUUID + MaxUUID
        /\ uuid' = [uuid EXCEPT ![p] = nextUUID]
        /\ nextUUID' = nextUUID + 1
        /\ eng' = [eng EXCEPT ![p] = Answered(eng[p], "ok")]
        /\ resp' = [resp EXCEPT ![p] = << UUIDPrefix, JSONString(Sprintf(nextUUID)) >>]
        /\ pc' = [pc EXCEPT ![p] = "c_append"]
        /\ UNCHANGED << req, t, pos, handles, deadline, reg0, db0, outcome, logged >>
        /\ UNCHANGED engineDBs
     \/ /\ Return(p, "ExecFailure",
                   Logged(Answered(eng[p], "err"), "DROP", t[p].Name, "ok"),
                   handles[p] \ {"scoped"}, << >>)
        /\ engineDBs' = engineDBs \ {t[p].Name}
        /\ UNCHANGED nextUUID
  /\ UNCHANGED << heap, metaDataList, calls, overlaps, hdr >>

\* lines 138-153: the engine answers SELECT UUID_SHORT(); on success the handler
\* formats the uuid and writes it to the ResponseWriter
createDB_UUIDReply(p) ==
  /\ pc[p] = "c_uuid_wait"
  /\ \/ /\ nextUUID < FirstUUID + MaxUUID
        /\ uuid' = [uuid EXCEPT ![p] = nextUUID]
        /\ nextUUID' = nextUUID + 1
        /\ eng' = [eng EXCEPT ![p] = Answered(eng[p], "ok")]
        /\ resp' = [resp EXCEPT ![p] = << UUIDPrefix, JSONString(Sprintf(nextUUID)) >>]
        /\ pc' = [pc EXCEPT ![p] = "c_append"]
        /\ UNCHANGED << req, t, pos, handles, deadline, reg0, db0, outcome, logged >>
     \/ /\ Return(p, "ExecFailure", Answered(eng[p], "err"), handles[p] \ {"scoped"}, << >>)
        /\ UNCHANGED nextUUID
  /\ UNCHANGED << heap, metaDataList, engineDBs, calls, overlaps, hdr >>

\* variant: the handler returns once it has written the response
createDB_AppendLoad_skip(p) ==
  /\ pc[p] = "c_append"
  /\ Return(p, "Ok", eng[p], handles[p] \ {"scoped"}, << >>)
  /\ UNCHANGED << heap, metaDataList, engineDBs, nextUUID, calls, overlaps, hdr >>

\* line 157, first half of append: load the slice header
createDB_AppendLoad(p) ==
  /\ pc[p] = "c_append"
  /\ hdr' = [hdr EXCEPT ![p] = metaDataList]
  /\ pc' = [pc EXCEPT ![p] = "c_store"]
  /\ UNCHANGED << heap, metaDataList, engineDBs, nextUUID, calls, overlaps, req, t, pos, uuid,
                  handles, deadline, resp, eng, reg0, db0, outcome, logged >>

\* variant: the positional struct literal with Engine and Size exchanged
NewMeta_swapped(pl, id) ==
  [Name |-> pl.Name, Engine |-> pl.Size, Size |-> pl.Engine,
   Replicas |-> pl.Replicas, uuid |-> Sprintf(id)]

\* lines 150, 156: d.uuid = fmt.Sprintf("%v", uuid);
\* m := metaData{t.Name, t.Engine, t.Size, t.Replicas, d.uuid}
NewMeta(pl, id) ==
  [Name |-> pl.Name, Engine |-> pl.Engine, Size |-> pl.Size,
   Replicas |-> pl.Replicas, uuid |-> Sprintf(id)]

\* line 157, append proper: store m at index len, in place when len < cap and in
\* a new array holding a copy of the old elements otherwise
createDB_AppendStore(p) ==
  /\ pc[p] = "c_store"
  /\ LET h == hdr[p]
         m == NewMeta(t[p], uuid[p])
         grown == [arr |-> FreshArr(metaDataList, [hdr EXCEPT ![p] = EmptySlice]),
                   len |-> h.len + 1,
                   cap |-> NewCap(h.cap, h.len + 1)]
         nh == IF h.len < h.cap THEN [h EXCEPT !.len = h.len + 1] ELSE grown
         nhdr == [hdr EXCEPT ![p] = nh]
         stored == IF h.len < h.cap
                     THEN [heap EXCEPT ![h.arr][h.len + 1] = m]
                     ELSE [heap EXCEPT ![grown.arr] =
                             Elems(heap, h) \o << m >> \o Zeros(grown.cap - grown.len)]
     IN  /\ hdr' = nhdr
         /\ heap' = Collect(stored, metaDataList, nhdr)
  /\ pc' = [pc EXCEPT ![p] = "c_publish"]
  /\ UNCHANGED << metaDataList, engineDBs, nextUUID, calls, overlaps, req, t, pos, uuid,
                  handles, deadline, resp, eng, reg0, db0, outcome, logged >>

\* lines 157-159: assign the new header to metaDataList, then return (the
\* deferred db.Close() runs)
createDB_AppendPublish(p) ==
  /\ pc[p] = "c_publish"
  /\ LET nhdr == [hdr EXCEPT ![p] = EmptySlice]
     IN  /\ metaDataList' = hdr[p]
         /\ hdr' = nhdr
         /\ heap' = Collect(heap, hdr[p], nhdr)
  /\ Return(p, "Ok", eng[p], handles[p] \ {"scoped"}, << >>)
  /\ UNCHANGED << engineDBs, nextUUID, calls, overlaps >>

(***************************************************************************)
(* deleteDB                                                                *)
(***************************************************************************)
\* variant: the p == -1 check and its return are missing
deleteDB_Find_noCheck(p) ==
  /\ pc[p] = "d_find"
  /\ pos' = [pos EXCEPT ![p] = findRecordsByDBName(Registry, req[p].dbName)]
  /\ handles' = [handles EXCEPT ![p] = {"scoped"}]
  /\ eng' = [eng EXCEPT ![p] =
               Issued(Logged(eng[p], "Open", req[p].dbName, "ok"), "DROP", req[p].dbName)]
  /\ pc' = [pc EXCEPT ![p] = "d_exec_wait"]
  /\ deadline' = [deadline EXCEPT ![p] = TRUE]
  /\ UNCHANGED << req, t, uuid, resp, reg0, db0, outcome, logged >>
  /\ UNCHANGED << heap, metaDataList, engineDBs, nextUUID, calls, overlaps, hdr >>

\* lines 164-184: look the name up; then sql.Open("mysql", dsn(dbName)) with its
\* deferred Close, and ExecContext of DROP DATABASE under a 5 s context
deleteDB_Find(p) ==
  /\ pc[p] = "d_find"
  /\ LET i == findRecordsByDBName(Registry, req[p].dbName)
     IN  IF i = -1
           THEN Return(p, "UnknownDatabase", eng[p], {}, << >>)
           ELSE IF ~sqlOpen("mysql")
                  THEN Return(p, "ConnectFailure",
                              Logged(eng[p], "Open", req[p].dbName, "err"), {}, << >>)
                  ELSE /\ pos' = [pos EXCEPT ![p] = i]
                       /\ handles' = [handles EXCEPT ![p] = {"scoped"}]
                       /\ eng' = [eng EXCEPT ![p] =
                                    Issued(Logged(eng[p], "Open", req[p].dbName, "ok"),
                                           "DROP", req[p].dbName)]
                       /\ pc' = [pc EXCEPT ![p] = "d_exec_wait"]
                       /\ deadline' = [deadline EXCEPT ![p] = TRUE]
                       /\ UNCHANGED << req, t, uuid, resp, reg0, db0, outcome, logged >>
  /\ UNCHANGED << heap, metaDataList, engineDBs, nextUUID, calls, overlaps, hdr >>

\* variant: the return after a failed DROP is missing
deleteDB_ExecReply_ignoreErr(p) ==
  /\ pc[p] = "d_exec_wait"
  /\ \/ /\ req[p].dbName \in engineDBs
        /\ engineDBs' = engineDBs \ {req[p].dbName}
        /\ eng' = [eng EXCEPT ![p] = Answered(eng[p], "ok")]
     \/ /\ eng' = [eng EXCEPT ![p] = Answered(eng[p], "err")]
        /\ UNCHANGED engineDBs
  /\ pc' = [pc EXCEPT ![p] = "d_remove"]
  /\ deadline' = [deadline EXCEPT ![p] = FALSE]
  /\ UNCHANGED << req, t, pos, uuid, handles, resp, reg0, db0, outcome, logged >>
  /\ UNCHANGED << heap, metaDataList, nextUUID, calls, overlaps, hdr >>

\* lines 184-195: the engine answers the DROP DATABASE statement (it can succeed
\* only while the database exists)
deleteDB_ExecReply(p) ==
  /\ pc[p] = "d_exec_wait"
  /\ \/ /\ req[p].dbName \in engineDBs
        /\ engineDBs' = engineDBs \ {req[p].dbName}
        /\ eng' = [eng EXCEPT ![p] = Answered(eng[p], "ok")]
        /\ pc' = [pc EXCEPT ![p] = "d_remove"]
        /\ deadline' = [deadline EXCEPT ![p] = FALSE]
        /\ UNCHANGED << req, t, pos, uuid, handles, resp, reg0, db0, outcome, logged >>
     \/ /\ Return(p, "ExecFailure", Answered(eng[p], "err"), handles[p] \ {"scoped"}, << >>)
        /\ UNCHANGED engineDBs
  /\ UNCHANGED << heap, metaDataList, nextUUID, calls, overlaps, hdr >>

\* lines 181-188: the DROP's context expires; the engine may or may not have
\* carried the statement out
deleteDB_ExecDeadline(p) ==
  /\ pc[p] = "d_exec_wait"
  /\ deadline[p]
  /\ \/ engineDBs' = engineDBs \ {req[p].dbName}
     \/ UNCHANGED engineDBs
  /\ Return(p, "Timeout", Answered(eng[p], "timeout"), handles[p] \ {"scoped"}, << >>)
  /\ UNCHANGED << heap, metaDataList, nextUUID, calls, overlaps, hdr >>

\* line 198, the slice expressions metaDataList[:p] and metaDataList[p+1:]: load
\* the header and check the bounds (a failed check panics; the deferred Close runs)
deleteDB_RemoveLoad(p) ==
  /\ pc[p] = "d_remove"
  /\ IF pos[p] + 1 > metaDataList.len
       THEN /\ Return(p, "Panic", eng[p], handles[p] \ {"scoped"}, << >>)
            /\ UNCHANGED hdr
       ELSE /\ hdr' = [hdr EXCEPT ![p] = metaDataList]
            /\ pc' = [pc EXCEPT ![p] = "d_move"]
            /\ UNCHANGED << req, t, pos, uuid, handles, deadline, resp, eng, reg0, db0, outcome, logged >>
  /\ UNCHANGED << heap, metaDataList, engineDBs, nextUUID, calls, overlaps >>

\* variant: removal by overwriting index p with the last element
ShiftLeft_swapLast(arr, p, len) ==
  [i \in 1..Len(arr) |-> IF i = p + 1 THEN arr[len] ELSE arr[i]]

\* the array after append(s[:p], s[p+1:]...) : the elements after index p move
\* one slot down, in place; the last slot keeps its old content
ShiftLeft(arr, p, len) ==
  [i \in 1..Len(arr) |-> IF p + 1 <= i /\ i <= len - 1 THEN arr[i + 1] ELSE arr[i]]

\* line 198, append proper: the in-place move
deleteDB_RemoveMove(p) ==
  /\ pc[p] = "d_move"
  /\ LET h == hdr[p]
     IN  /\ heap' = [heap EXCEPT ![h.arr] = ShiftLeft(heap[h.arr], pos[p], h.len)]
         /\ hdr' = [hdr EXCEPT ![p] = [h EXCEPT !.len = h.len - 1]]
  /\ pc' = [pc EXCEPT ![p] = "d_publish"]
  /\ UNCHANGED << metaDataList, engineDBs, nextUUID, calls, overlaps, req, t, pos, uuid,
                  handles, deadline, resp, eng, reg0, db0, outcome, logged >>

\* lines 198-200: assign the new header to metaDataList, then return
deleteDB_RemovePublish(p) ==
  /\ pc[p] = "d_publish"
  /\ LET nhdr == [hdr EXCEPT ![p] = EmptySlice]
     IN  /\ metaDataList' = hdr[p]
         /\ hdr' = nhdr
         /\ heap' = Collect(heap, hdr[p], nhdr)
  /\ Return(p, "Ok", eng[p], handles[p] \ {"scoped"}, << >>)
  /\ UNCHANGED << engineDBs, nextUUID, calls, overlaps >>

(***************************************************************************)
(* getMetadata, lines 202-205: print the list to the server's log; nothing *)
(* is written to the ResponseWriter                                        *)
(***************************************************************************)
\* variant: the handler prints the list and then empties it
getMetadata_truncate(p) ==
  /\ pc[p] = "g_log"
  /\ metaDataList' = [metaDataList EXCEPT !.len = 0]
  /\ Return(p, "Ok", eng[p], {}, Registry)
  /\ UNCHANGED << heap, engineDBs, nextUUID, calls, overlaps, hdr >>

getMetadata(p) ==
  /\ pc[p] = "g_log"
  /\ Return(p, "Ok", eng[p], {}, Registry)
  /\ UNCHANGED << heap, metaDataList, engineDBs, nextUUID, calls, overlaps, hdr >>

Step(p) ==
  \/ createDB_Decode(p)
  \/ createDB_Open(p)
  \/ createDB_ExecReply(p)
  \/ createDB_ExecDeadline(p)
  \/ createDB_Reopen(p)
  \/ createDB_PingReply(p)
  \/ createDB_PingDeadline(p)
  \/ createDB_UUIDReply(p)
  \/ createDB_AppendLoad(p)
  \/ createDB_AppendStore(p)
  \/ createDB_AppendPublish(p)
  \/ deleteDB_Find(p)
  \/ deleteDB_ExecReply(p)
  \/ deleteDB_ExecDeadline(p)
  \/ deleteDB_RemoveLoad(p)
  \/ deleteDB_RemoveMove(p)
  \/ deleteDB_RemovePublish(p)
  \/ getMetadata(p)
  \/ Respond(p)

\* goroutines run concurrently: any request may arrive while others are served
Next == \E p \in Procs : Request(p) \/ Step(p)

Spec == Init /\ [][Next]_vars

\* requests served one after another: a request arrives only when no handler runs
SeqRequest(p) == Quiet /\ Request(p)

SeqNext == \E p \in Procs : SeqRequest(p) \/ Step(p)

SeqSpec == Init /\ [][SeqNext]_vars

(***************************************************************************)
(* Vocabulary of the properties.  Case folding is stated here on its own,  *)
(* by lower-casing, and not through EqualFold.                             *)
(***************************************************************************)
Lower(r) == IF 65 <= r /\ r <= 90 THEN r + 32 ELSE r

ToLower(str) == [i \in 1..Len(str) |-> Lower(str[i])]

SameFolded(a, b) == ToLower(a) = ToLower(b)

\* the positions of list whose record has the name n, up to case
Matches(list, n) == {i \in 1..Len(list) : SameFolded(list[i].Name, n)}

\* goroutine p's handler for operation o has returned through out
Returned(p, o, out) == pc[p] = "returned" /\ req[p].op = o /\ outcome[p] = out

\* the log shows an engine call of this kind that succeeded
Succeeded(log, call) == \E i \in 1..Len(log) : log[i].call = call /\ log[i].res = "ok"

\* list without its k-th element
RemoveAt(list, k) == SubSeq(list, 1, k - 1) \o SubSeq(list, k + 1, Len(list))

\* the identity a response carries: the JSON string after the prefix, unquoted
Identity(r) == SubSeq(r[2], 2, Len(r[2]) - 2)

(***************************************************************************)
(* C1: in every reachable state, under any interleaving of concurrent      *)
(* Create and Delete calls, the Registry holds at most one record per      *)
(* case-folded name.                                                       *)
(***************************************************************************)
C1_OneRecordPerFoldedName ==
  \A i, j \in 1..Len(Registry) :
    SameFolded(Registry[i].Name, Registry[j].Name) => i = j

(***************************************************************************)
(* C2: the duplicate check and the insert of one Create are atomic with    *)
(* respect to another Create of the same name: a Create that has come to   *)
(* insert its record (its engine calls all succeeded) finds no record of   *)
(* that folded name in the Registry, so of two such Creates only one       *)
(* inserts.                                                                *)
(***************************************************************************)
C2_CheckAndInsertAtomic ==
  \A p \in Procs :
    pc[p] = "c_publish" => Matches(Registry, t[p].Name) = {}

(***************************************************************************)
(* C3: run one after another, a Create whose name equals an existing       *)
(* record's name under case folding returns through DuplicateDatabase,     *)
(* has made no engine call and leaves the Registry as it was.              *)
(***************************************************************************)
C3_DuplicateCreateRejected ==
  \A p \in Procs :
    (/\ req[p].op = "create"
     /\ ~req[p].malformed
     /\ Matches(reg0[p], req[p].body.Name) # {})
    => \/ pc[p] = "c_decode"
       \/ /\ Returned(p, "create", "DuplicateDatabase")
          /\ eng[p] = << >>
          /\ handles[p] = {}
          /\ Registry = reg0[p]

C3_Witness ==
  \E p \in Procs :
    /\ Returned(p, "create", "DuplicateDatabase")
    /\ req[p].body.Name = DBNAME1
    /\ Len(Registry) = 1
    /\ Registry[1].Name = dbName1

(***************************************************************************)
(* C4: round trip.  After a successful Create(n) the Registry (what        *)
(* GetMetadata prints) holds exactly one record named n, with the name,    *)
(* engine, size and replica count given and the identity the response      *)
(* carries; after a successful Delete(n) it holds no record whose name     *)
(* equals n case-insensitively.                                            *)
(***************************************************************************)
C4_RoundTrip ==
  \A p \in Procs :
    /\ Returned(p, "create", "Ok") =>
         /\ Cardinality(Matches(Registry, req[p].body.Name)) = 1
         /\ resp[p][1] = UUIDPrefix
         /\ \A i \in Matches(Registry, req[p].body.Name) :
              Registry[i] = [Name |-> req[p].body.Name,
                             Engine |-> req[p].body.Engine,
                             Size |-> req[p].body.Size,
                             Replicas |-> req[p].body.Replicas,
                             uuid |-> Identity(resp[p])]
    /\ Returned(p, "delete", "Ok") => Matches(Registry, req[p].dbName) = {}

C4_Witness ==
  \E p \in Procs :
    /\ Returned(p, "delete", "Ok")
    /\ req[p].dbName = dbName1
    /\ Matches(reg0[p], dbName1) # {}
    /\ Len(Registry) = 1
    /\ Registry[1].Name = dbName2

(***************************************************************************)
(* C5: a Delete of a name that matches no Registry record returns through  *)
(* UnknownDatabase, has made no engine call (no pool opened, no DROP       *)
(* issued) and leaves the Registry unchanged.                              *)
(***************************************************************************)
C5_UnknownDeleteRejected ==
  \A p \in Procs :
    (req[p].op = "delete" /\ Matches(reg0[p], req[p].dbName) = {})
    => \/ pc[p] = "d_find"
       \/ /\ Returned(p, "delete", "UnknownDatabase")
          /\ eng[p] = << >>
          /\ handles[p] = {}
          /\ Registry = reg0[p]

C5_Witness ==
  \E p \in Procs :
    /\ Returned(p, "delete", "UnknownDatabase")
    /\ req[p].dbName = dbName2
    /\ Len(Registry) = 1
    /\ Registry[1].Name = dbName1

(***************************************************************************)
(* C6: the Registry is insertion-ordered.  A successful Create puts its    *)
(* record after the records that were there, so N Creates leave the        *)
(* records in creation order; a successful Delete removes one record       *)
(* matching its name (first, middle or last) and leaves the others in      *)
(* their previous order.                                                   *)
(***************************************************************************)
C6_InsertionOrder ==
  \A p \in Procs :
    /\ Returned(p, "create", "Ok") =>
         /\ Len(Registry) = Len(reg0[p]) + 1
         /\ SubSeq(Registry, 1, Len(reg0[p])) = reg0[p]
         /\ Registry[Len(Registry)].Name = req[p].body.Name
    /\ Returned(p, "delete", "Ok") =>
         \E k \in Matches(reg0[p], req[p].dbName) : Registry = RemoveAt(reg0[p], k)

C6_Witness ==
  \E p \in Procs :
    /\ Returned(p, "delete", "Ok")
    /\ Len(reg0[p]) = 3
    /\ Matches(reg0[p], req[p].dbName) = {2}
    /\ Registry = << reg0[p][1], reg0[p][3] >>

(***************************************************************************)
(* C7: a record is appended to the Registry only by a Create whose CREATE  *)
(* statement, ping and identity fetch all succeeded; a Create that fails   *)
(* at connect, execute, verify or identity allocation leaves the Registry  *)
(* unchanged.                                                              *)
(***************************************************************************)
C7_AppendOnlyAfterVerified ==
  \A p \in Procs :
    req[p].op = "create" =>
      /\ (Registry # reg0[p] \/ pc[p] \in {"c_append", "c_store", "c_publish"}) =>
           /\ Succeeded(eng[p], "CREATE")
           /\ Succeeded(eng[p], "Ping")
           /\ Succeeded(eng[p], "UUID_SHORT")
      /\ (pc[p] = "returned" /\ outcome[p] # "Ok") => Registry = reg0[p]

C7_Witness ==
  \E p \in Procs :
    /\ Returned(p, "create", "ConnectFailure")
    /\ Succeeded(eng[p], "CREATE")
    /\ eng[p][Len(eng[p])] = [call |-> "Ping", db |-> dbName2, res |-> "err"]
    /\ dbName2 \in engineDBs
    /\ Len(Registry) = 1

(***************************************************************************)
(* C8: a Delete whose DROP statement fails or times out leaves the         *)
(* Registry unchanged, the record still present; a record is removed only  *)
(* after the DROP succeeded.                                               *)
(***************************************************************************)
C8_RemoveOnlyAfterDrop ==
  \A p \in Procs :
    req[p].op = "delete" =>
      /\ (Registry # reg0[p] \/ pc[p] \in {"d_remove", "d_move", "d_publish"}) =>
           Succeeded(eng[p], "DROP")
      /\ (pc[p] = "returned" /\ outcome[p] \in {"ConnectFailure", "ExecFailure", "Timeout"}) =>
           /\ Registry = reg0[p]
           /\ Matches(Registry, req[p].dbName) # {}

C8_Witness ==
  \E p \in Procs :
    /\ Returned(p, "delete", "Timeout")
    /\ eng[p][Len(eng[p])] = [call |-> "DROP", db |-> dbName1, res |-> "timeout"]
    /\ Len(Registry) = 2
    /\ Registry[1].Name = dbName1

(***************************************************************************)
(* C9: every pool a Create or Delete call opened is closed by the time     *)
(* the call returns, on every exit path.                                   *)
(***************************************************************************)
C9_HandlesClosedOnReturn ==
  \A p \in Procs : pc[p] = "returned" => handles[p] = {}

(***************************************************************************)
(* C10: every engine call of Create and Delete (execute, verify, identity  *)
(* fetch) is bounded by the deadline: while a handler waits for the        *)
(* engine, a context deadline is armed that ends the wait with Timeout.    *)
(***************************************************************************)
C10_EngineCallsBounded ==
  \A p \in Procs :
    pc[p] \in {"c_exec_wait", "c_ping_wait", "c_uuid_wait", "d_exec_wait"} => deadline[p]

(***************************************************************************)
(* C11: every Create or Delete call that fails (duplicate name, unknown    *)
(* name, connect failure, exec failure, timeout) delivers an explicit      *)
(* failure to its caller: when such a handler has returned, it has written *)
(* something to the response.                                              *)
(***************************************************************************)
FailureOutcomes ==
  {"DuplicateDatabase", "UnknownDatabase", "ConnectFailure", "ExecFailure", "Timeout"}

C11_FailureDelivered ==
  \A p \in Procs :
    (/\ pc[p] = "returned"
     /\ req[p].op \in {"create", "delete"}
     /\ outcome[p] \in FailureOutcomes)
    => resp[p] # << >>

(***************************************************************************)
(* C12: GetMetadata is a pure read.  With requests served one after        *)
(* another, the step of getMetadata prints the Registry as it is, in       *)
(* order, makes no database/sql call, opens no pool, and leaves the        *)
(* Registry (header and array) and the engine as they were.                *)
(***************************************************************************)
C12_GetMetadataPureRead ==
  [][\A p \in Procs :
       (pc[p] = "g_log" /\ pc'[p] = "returned") =>
         /\ logged'[p] = Registry
         /\ eng'[p] = << >>
         /\ handles'[p] = {}
         /\ resp'[p] = << >>
         /\ heap' = heap
         /\ metaDataList' = metaDataList
         /\ engineDBs' = engineDBs
         /\ nextUUID' = nextUUID]_vars

C12_Witness ==
  \E p \in Procs :
    /\ Returned(p, "get", "Ok")
    /\ Len(logged[p]) = 2
    /\ logged[p][1].Name = dbName2
    /\ logged[p][2].Name = dbName1
    /\ logged[p] = Registry
    /\ engineDBs = {dbName1, dbName2}

(***************************************************************************)
(* C13: run one after another, a Create that fails at the ping or at the   *)
(* identity fetch, after its CREATE statement succeeded, leaves the        *)
(* database in the engine and no record of it in the Registry, and has     *)
(* issued no DROP: its log ends with the failed call.                      *)
(***************************************************************************)
\* the log's last call is of this kind and did not succeed
FailedAt(log, call) ==
  /\ Len(log) > 0
  /\ log[Len(log)].call = call
  /\ log[Len(log)].res \in {"err", "timeout"}

C13_OrphanNotRolledBack ==
  \A p \in Procs :
    (/\ pc[p] = "returned"
     /\ req[p].op = "create"
     /\ outcome[p] # "Ok"
     /\ Succeeded(eng[p], "CREATE"))
    => /\ req[p].body.Name \in engineDBs
       /\ Matches(Registry, req[p].body.Name) = {}
       /\ Registry = reg0[p]
       /\ \A i \in 1..Len(eng[p]) : eng[p][i].call \in {"Open", "CREATE", "Ping", "UUID_SHORT"}
       /\ FailedAt(eng[p], "Ping") \/ FailedAt(eng[p], "UUID_SHORT")

C13_Witness ==
  \E p \in Procs :
    /\ Returned(p, "create", "ExecFailure")
    /\ FailedAt(eng[p], "UUID_SHORT")
    /\ req[p].body.Name = dbName1
    /\ dbName1 \in engineDBs
    /\ Registry = << >>

(***************************************************************************)
(* C14: within one Create the database/sql calls occur in the order        *)
(* open unscoped, CREATE, open scoped to the new name, ping, identity      *)
(* fetch; each is made only if every earlier one succeeded; the ping and   *)
(* the identity fetch use the pool scoped to the new name; and the         *)
(* Registry insert comes only after all five succeeded.                    *)
(***************************************************************************)
CreateSteps(n) ==
  << [call |-> "Open", db |-> << >>],
     [call |-> "CREATE", db |-> << >>],
     [call |-> "Open", db |-> n],
     [call |-> "Ping", db |-> n],
     [call |-> "UUID_SHORT", db |-> n] >>

C14_CreateStepOrder ==
  \A p \in Procs :
    req[p].op = "create" =>
      LET log == eng[p]
          steps == CreateSteps(req[p].body.Name)
      IN  /\ Len(log) <= Len(steps)
          /\ \A i \in 1..Len(log) :
               /\ log[i].call = steps[i].call
               /\ log[i].db = steps[i].db
               /\ i < Len(log) => log[i].res = "ok"
          /\ (pc[p] \in {"c_append", "c_store", "c_publish"} \/ Registry # reg0[p]) =>
               /\ Len(log) = Len(steps)
               /\ log[Len(log)].res = "ok"

C14_Witness ==
  \E p \in Procs :
    /\ Returned(p, "create", "Ok")
    /\ Len(eng[p]) = 5
    /\ eng[p][5] = [call |-> "UUID_SHORT", db |-> dbName2, res |-> "ok"]
    /\ Registry # reg0[p]

(***************************************************************************)
(* C15: engine errors are never retried: one Create issues at most one     *)
(* CREATE statement, one ping and one identity fetch, and one Delete at    *)
(* most one DROP statement, whatever the results.                          *)
(***************************************************************************)
Count(log, call) == Cardinality({i \in 1..Len(log) : log[i].call = call})

C15_NoRetry ==
  \A p \in Procs :
    /\ \A c \in {"CREATE", "Ping", "UUID_SHORT", "DROP"} : Count(eng[p], c) <= 1
    /\ req[p].op = "create" => Count(eng[p], "DROP") = 0
    /\ req[p].op = "delete" =>
         /\ Count(eng[p], "CREATE") = 0
         /\ Count(eng[p], "Ping") = 0
         /\ Count(eng[p], "UUID_SHORT") = 0
         /\ Len(eng[p]) <= 2

C15_Witness ==
  \E p \in Procs :
    /\ Returned(p, "create", "ExecFailure")
    /\ eng[p] = << [call |-> "Open", db |-> << >>, res |-> "ok"],
                   [call |-> "CREATE", db |-> << >>, res |-> "err"] >>

(***************************************************************************)
(* C16: whenever a Delete(n) removes a record, under any interleaving with *)
(* other Create and Delete calls, the record it removes has the name n up  *)
(* to case: when the removal is applied, the position found before the     *)
(* engine round trip still holds a record of that name.                    *)
(***************************************************************************)
C16_DeleteRemovesMatching ==
  \A p \in Procs :
    pc[p] = "d_move" =>
      SameFolded(heap[hdr[p].arr][pos[p] + 1].Name, req[p].dbName)

(***************************************************************************)
(* C17: Registry inserts are atomic with respect to other inserts and      *)
(* removes: the step by which a Create publishes its insert, into a        *)
(* Registry that holds only records of other names, keeps every record     *)
(* the Registry held and adds its own, so no insert is lost or             *)
(* overwritten.                                                            *)
(***************************************************************************)
C17_NoLostInsert ==
  [][\A p \in Procs :
       (/\ pc[p] = "c_publish"
        /\ pc'[p] = "returned"
        /\ Matches(Registry, t[p].Name) = {}) =>
         /\ \A i \in 1..Len(Registry) :
              \E j \in 1..Len(Registry') : Registry'[j] = Registry[i]
         /\ \E j \in 1..Len(Registry') : Registry'[j] = NewMeta(t[p], uuid[p])]_vars

(***************************************************************************)
(* C18: run one after another, a Create delivers the identity only after   *)
(* its record is in the Registry: whenever a returned createDB has a       *)
(* response for net/http to send, the Registry holds a record with the     *)
(* request's name and the identity that response carries.                  *)
(***************************************************************************)
C18_IdentityAfterInsert ==
  \A p \in Procs :
    (pc[p] = "returned" /\ req[p].op = "create" /\ resp[p] # << >>)
    => \E i \in 1..Len(Registry) :
         /\ Registry[i].Name = req[p].body.Name
         /\ Registry[i].uuid = Identity(resp[p])

C18_Witness ==
  \E p \in Procs :
    /\ pc[p] = "returned"
    /\ req[p].op = "create"
    /\ resp[p] = << UUIDPrefix, << 34, 49, 48, 34, 10 >> >>
    /\ Len(Registry) = 2
    /\ Registry[2].uuid = << 49, 48 >>
    /\ Registry[2].Name = req[p].body.Name

(***************************************************************************)
(* C19: a Create whose body cannot be decoded ends with a typed            *)
(* InvalidRequest error written to the caller, never with a panic; the     *)
(* Registry is unchanged and no engine call is made.                       *)
(***************************************************************************)
C19_DecodeErrorTyped ==
  \A p \in Procs :
    (pc[p] = "returned" /\ req[p].op = "create" /\ req[p].malformed)
    => /\ outcome[p] = "InvalidRequest"
       /\ resp[p] # << >>
       /\ eng[p] = << >>

(***************************************************************************)
(* C20: when a Delete comes to apply its removal, the position p it found  *)
(* earlier is a valid index of the current list, 0 <= p < len, under any   *)
(* interleaving of concurrent Delete calls.                                *)
(***************************************************************************)
C20_RemovalIndexValid ==
  \A p \in Procs :
    pc[p] = "d_remove" => (0 <= pos[p] /\ pos[p] < metaDataList.len)

(***************************************************************************)
(* C21: when a Delete removes a record, the name in its DROP statement is  *)
(* the name stored in that record, letter case included: a Delete never    *)
(* drops one engine database and then unregisters a record stored under    *)
(* another spelling.  Stated for requests served one after another, where  *)
(* the position found is still the position of the record removed.         *)
(***************************************************************************)
C21_DropNameIsStoredName ==
  \A p \in Procs :
    pc[p] = "d_move" =>
      /\ eng[p][Len(eng[p])] = [call |-> "DROP", db |-> req[p].dbName, res |-> "ok"]
      /\ heap[hdr[p].arr][pos[p] + 1].Name = eng[p][Len(eng[p])].db

(***************************************************************************)
(* C22: whenever no handler is running, after any interleaving of Create   *)
(* and Delete calls, every record of the Registry names a database that    *)
(* exists in the engine (the engine changes only through these calls).     *)
(***************************************************************************)
C22_RecordsExistInEngine ==
  Quiet => \A i \in 1..Len(Registry) : Registry[i].Name \in engineDBs

(***************************************************************************)
(* C23: run one after another, a Create(n) that arrives when database n    *)
(* exists in the engine with no record of it (left there by an earlier     *)
(* Create that failed at the ping or the identity fetch) is not rejected   *)
(* as a duplicate; when its engine calls all succeed it returns Ok, with   *)
(* exactly one record for n in the Registry.                               *)
(***************************************************************************)
\* every step of the Create was made and answered ok
AllSucceeded(log) ==
  /\ Len(log) = 5
  /\ \A i \in 1..Len(log) : log[i].res = "ok"

C23_RecreateAfterOrphan ==
  \A p \in Procs :
    (/\ req[p].op = "create"
     /\ ~req[p].malformed
     /\ req[p].body.Name \in db0[p]
     /\ Matches(reg0[p], req[p].body.Name) = {})
    => /\ outcome[p] # "DuplicateDatabase"
       /\ pc[p] \notin {"c_decode", "c_open"} =>
            (eng[p] # << >> /\ eng[p][1].call = "Open")
       /\ (pc[p] = "returned" /\ AllSucceeded(eng[p])) =>
            /\ outcome[p] = "Ok"
            /\ Cardinality(Matches(Registry, req[p].body.Name)) = 1
            /\ Registry = Append(reg0[p], NewMeta(req[p].body, uuid[p]))

C23_Witness ==
  \E p \in Procs :
    /\ Returned(p, "create", "Ok")
    /\ req[p].body.Name = dbName1
    /\ db0[p] = {dbName1}
    /\ reg0[p] = << >>
    /\ Len(Registry) = 1
    /\ Registry[1].Name = dbName1
    /\ engineDBs = {dbName1}

=============================================================================
